---- MODULE Spec2Model ----
(***************************************************************************)
(* Character-level recurrent model of Recurrent_Neural_Networks.ipynb:     *)
(* vocabulary and encoded corpus, random_chunk, the train loop and         *)
(* generate.  Floating point values that the claims do not depend on are   *)
(* abstracted: a per-step loss is one of LossVals, the argmax and the      *)
(* multinomial sample are any id of the vocabulary, the Cell parameters    *)
(* are the number of optimizer updates applied to them, and a hidden state *)
(* is the sequence of input ids folded into it since it was zeroed         *)
(* (h_t = f(x_t, h_{t-1}) with f uninterpreted).                           *)
(***************************************************************************)
EXTENDS Integers, Sequences, FiniteSets, TLC

VARIABLES
    rawtxt,       \* the lowercased corpus text, a sequence of characters
    num_to_let,   \* id -> character
    X, Y,         \* encoded corpus and its shifted labels (0-based in the code, 1-based here)
    chunk_size,   \* hyper-parameter (global)
    params,       \* Cell parameters: number of optimizer updates applied
    grads,        \* state of the parameters' .grad buffers
    report,       \* the lines the step just taken printed, << >> or <<record>>
    pc, err,      \* position of the running notebook cell, pending exception
    no_epochs, epoch, c, totcost, cost, k, y,   \* locals of train
    generated, h, x, i,                          \* locals shared by name by train and generate
    prime, str_len, temperature,                 \* arguments of generate
    chunkLog      \* history: the cost of every chunk finished in the current epoch

vars == <<rawtxt, num_to_let, X, Y, chunk_size, params, grads, report,
          pc, err, no_epochs, epoch, c, totcost, cost, k, y,
          generated, h, x, i, prime, str_len, temperature, chunkLog>>

----------------------------------------------------------------------------
(* Bounds of the model *)
MaxLen    == 3   \* longest corpus
MaxChunk  == 3   \* largest chunk_size
MaxEpochs == 2   \* largest no_epochs
MaxUpdates == 4  \* cap on the optimizer updates of one behaviour
MaxPrime  == 2   \* longest prime_str
MaxStrLen == 2   \* largest str_len
SnippetLen == 2  \* stands for the 750 of generated[0:750]

Chars    == {"a", "b"}
TempVals == {-1, 0, 1}
LossVals == {0, 1}   \* abstract values of one step's cross-entropy

Min(a, b) == IF a < b THEN a ELSE b

SeqsUpTo(S, n) == UNION {[1..m -> S] : m \in 0..n}

Range(s) == {s[j] : j \in 1..Len(s)}

----------------------------------------------------------------------------
(* Python helpers *)

\* s[a:b] for 0 <= a, with Python's clamping of the upper end
PySlice(s, a, b) == SubSeq(s, a + 1, Min(b, Len(s)))

RECURSIVE Gcd(_, _)
Gcd(a, b) == IF b = 0 THEN a ELSE Gcd(b, a % b)

\* a number as a reduced fraction <<numerator, denominator>>
Frac(a, b) == LET g == Gcd(a, b) IN <<a \div g, b \div g>>

FracAdd(f, n) == Frac(f[1] + n * f[2], f[2])

FracDiv(f, n) == Frac(f[1], f[2] * n)

----------------------------------------------------------------------------
(* Vocabulary and encoded corpus *)

\* the possible results of create_map: set order is unspecified
create_map(txt) ==
    LET letters == Range(txt)
        n == Cardinality(letters)
    IN {m \in [0..(n - 1) -> letters] : \A a, b \in 0..(n - 1) : m[a] = m[b] => a = b}

\* dict(zip(num_to_let.values(), num_to_let.keys()))
let_to_num == [ch \in {num_to_let[n] : n \in DOMAIN num_to_let}
                 |-> CHOOSE n \in DOMAIN num_to_let : num_to_let[n] = ch]

nchars == Cardinality(DOMAIN num_to_let)

maparray(txt, mapdict) == [j \in 1..Len(txt) |-> mapdict[txt[j]]]

\* np.roll(a, shift): element j moves to (j + shift) mod n
NpRoll(a, shift) ==
    LET n == Len(a) IN [j \in 1..n |-> a[((j - 1 - shift) % n) + 1]]

\* rolled the other way
Labels_Right(a) == NpRoll(a, 1)

Labels(a) == NpRoll(a, -1)

----------------------------------------------------------------------------
(* Cell *)

\* the hidden state left by the previous chunk or call, not zeroed
init_hidden_stale == h

init_hidden == << >>

\* the value of the local h outside any call: no tensor at all
unbound_hidden == <<"unbound">>

\* one recurrence step: the new hidden state folds the input id into the old one
forward(xid, hid) == Append(hid, xid)

----------------------------------------------------------------------------
\* the corpora: non-empty texts of at most MaxLen characters.  The first character
\* is fixed, since swapping the two letters maps every other text onto one of these.
Corpora == {t \in SeqsUpTo(Chars, MaxLen) : t # << >> /\ t[1] = "a"}

Init ==
    /\ rawtxt \in Corpora
    /\ num_to_let \in create_map(rawtxt)
    /\ X = maparray(rawtxt, let_to_num)
    /\ Y = Labels(X)
    /\ chunk_size \in 1..MaxChunk
    /\ params = 0
    /\ grads = "none"
    /\ report = << >>
    /\ pc = "idle"
    /\ err = "none"
    /\ no_epochs = 0 /\ epoch = 0 /\ c = 0 /\ totcost = <<0, 1>> /\ cost = 0
    /\ k = 0 /\ y = << >>
    /\ generated = << >> /\ h = unbound_hidden /\ x = << >> /\ i = 0
    /\ prime = << >> /\ str_len = 0 /\ temperature = 1
    /\ chunkLog = << >>

corpusVars == <<rawtxt, num_to_let, X, Y, chunk_size>>
genArgs == <<prime, str_len, temperature>>

----------------------------------------------------------------------------
(* random_chunk *)

\* np.random.randint(low, high): the values it can return; none means ValueError
RandintRange(low, high) == IF high <= low THEN {} ELSE low..(high - 1)

\* upper end one too far
random_chunk_offsets_wide(cs) == RandintRange(0, Len(X) - cs + 1)

random_chunk_offsets(cs) == RandintRange(0, Len(X) - cs)

random_chunk(cs, kk) == <<PySlice(X, kk, kk + cs), PySlice(Y, kk, kk + cs)>>

\* len(X)//chunk_size
NumChunks == Len(X) \div chunk_size

----------------------------------------------------------------------------
(* train *)

trainLocals == <<no_epochs, epoch, c, totcost, cost, k, y, chunkLog>>

\* a notebook cell calls train(ne)
CallTrain(ne) ==
    /\ pc = "idle"
    /\ params + ne * NumChunks <= MaxUpdates
    /\ no_epochs' = ne
    /\ epoch' = 0
    /\ pc' = "epoch_loop"
    /\ UNCHANGED <<corpusVars, params, grads, report, err, c, totcost, cost, k, y,
                   generated, h, x, i, genArgs, chunkLog>>

\* the running total carried over from the previous epoch
EpochStartCost_Carry == totcost

\* totcost = 0
EpochStartCost == <<0, 1>>

\* for epoch in range(no_epochs): totcost = 0; generated = ''
TrainEpochStart ==
    /\ pc = "epoch_loop" /\ epoch < no_epochs
    /\ totcost' = EpochStartCost
    /\ generated' = << >>
    /\ c' = 0
    /\ chunkLog' = << >>
    /\ report' = << >>
    /\ pc' = "chunk_loop"
    /\ UNCHANGED <<corpusVars, params, grads, err, no_epochs, epoch,
                   cost, k, y, h, x, i, genArgs>>

TrainReturn ==
    /\ pc = "epoch_loop" /\ epoch >= no_epochs
    /\ report' = << >>
    /\ pc' = "train_done"
    /\ UNCHANGED <<corpusVars, params, grads, err, trainLocals,
                   generated, h, x, i, genArgs>>

\* head of the chunk loop: h = init_hidden(); cost = 0; x, y = random_chunk(chunk_size)
TrainChunkStart ==
    /\ pc = "chunk_loop" /\ c < NumChunks
    /\ h' = init_hidden
    /\ cost' = 0
    /\ \/ /\ random_chunk_offsets(chunk_size) = {}
          /\ pc' = "failed" /\ err' = "ValueError"
          /\ UNCHANGED <<k, x, y, i>>
       \/ /\ \E kk \in random_chunk_offsets(chunk_size) :
                /\ k' = kk
                /\ x' = random_chunk(chunk_size, kk)[1]
                /\ y' = random_chunk(chunk_size, kk)[2]
          /\ i' = 0
          /\ pc' = "forward" /\ err' = err
    /\ UNCHANGED <<corpusVars, params, grads, report, no_epochs, epoch, c,
                   totcost, generated, genArgs, chunkLog>>

ArgmaxLetter(outl) == num_to_let[outl]

\* the optimizer lines indented into the loop body
AfterForward_InLoop(n) == "zero_grad"

\* where control goes after the n-th pass of for i in range(chunk_size)
AfterForward(n) == IF n < chunk_size THEN "forward" ELSE "zero_grad"

\* body of for i in range(chunk_size): one Cell step, the argmax letter, the loss
TrainForward ==
    /\ pc = "forward" /\ i < chunk_size
    /\ IF i >= Len(x)
         THEN /\ pc' = "failed" /\ err' = "IndexError"
              /\ UNCHANGED <<h, generated, cost, i>>
         ELSE /\ h' = forward(x[i + 1], h)
              /\ \E outl \in DOMAIN num_to_let :
                    generated' = Append(generated, ArgmaxLetter(outl))
              /\ \E loss \in LossVals : cost' = cost + loss
              /\ i' = i + 1
              /\ pc' = AfterForward(i + 1)
              /\ err' = err
    /\ UNCHANGED <<corpusVars, params, grads, report, no_epochs, epoch, c,
                   totcost, k, y, x, genArgs, chunkLog>>

\* optimizer.zero_grad()
TrainZeroGrad ==
    /\ pc = "zero_grad"
    /\ grads' = "zero"
    /\ pc' = "backward"
    /\ UNCHANGED <<corpusVars, params, report, err, trainLocals,
                   generated, h, x, i, genArgs>>

\* cost.backward()
TrainBackward ==
    /\ pc = "backward"
    /\ grads' = "computed"
    /\ pc' = "opt_step"
    /\ UNCHANGED <<corpusVars, params, report, err, trainLocals,
                   generated, h, x, i, genArgs>>

OptimizerStep(p) == p + 1

\* optimizer.step()
TrainOptStep ==
    /\ pc = "opt_step"
    /\ params' = OptimizerStep(params)
    /\ pc' = "accumulate"
    /\ UNCHANGED <<corpusVars, grads, report, err, trainLocals,
                   generated, h, x, i, genArgs>>

AddCost(tot, cst) == FracAdd(tot, cst)

\* totcost += cost.data[0], and the chunk loop's increment
TrainAccumulate ==
    /\ pc = "accumulate"
    /\ totcost' = AddCost(totcost, cost)
    /\ chunkLog' = Append(chunkLog, cost)
    /\ c' = c + 1
    /\ pc' = "chunk_loop"
    /\ UNCHANGED <<corpusVars, params, grads, report, err, no_epochs, epoch,
                   cost, k, y, generated, h, x, i, genArgs>>

\* the tail of the text instead of its head
Snippet_Tail(g) == SubSeq(g, Len(g) - Min(SnippetLen, Len(g)) + 1, Len(g))

\* generated[0:750]
Snippet(g) == PySlice(g, 0, SnippetLen)

\* after the chunk loop: totcost /= len(X)//chunk_size, and the two prints
TrainEpochEnd ==
    /\ pc = "chunk_loop" /\ c >= NumChunks
    /\ \/ /\ NumChunks = 0
          /\ pc' = "failed" /\ err' = "ZeroDivisionError"
          /\ UNCHANGED <<totcost, report, epoch>>
       \/ /\ NumChunks # 0
          /\ totcost' = FracDiv(totcost, NumChunks)
          /\ report' = <<[epoch |-> epoch + 1, cost |-> totcost', text |-> Snippet(generated)]>>
          /\ epoch' = epoch + 1
          /\ pc' = "epoch_loop" /\ err' = err
    /\ UNCHANGED <<corpusVars, params, grads, no_epochs, c, cost, k, y,
                   generated, h, x, i, genArgs, chunkLog>>

----------------------------------------------------------------------------
(* generate *)

InVocab(txt) == \A j \in 1..Len(txt) : txt[j] \in DOMAIN let_to_num

\* generate(p, n, t) up to the priming loop: generated = prime_str, h = init_hidden(),
\* prime_str = maparray(prime_str, let_to_num), x = Variable(...)
CallGenerate(p, n, t) ==
    /\ pc = "idle"
    /\ prime' = p /\ str_len' = n /\ temperature' = t
    /\ generated' = p
    /\ h' = init_hidden
    /\ \/ /\ ~InVocab(p)
          /\ pc' = "failed" /\ err' = "KeyError"
          /\ UNCHANGED <<x, i>>
       \/ /\ InVocab(p)
          /\ x' = maparray(p, let_to_num)
          /\ i' = 0
          /\ pc' = "prime" /\ err' = err
    /\ UNCHANGED <<corpusVars, params, grads, report, trainLocals>>

\* the indices of x the priming loop feeds: for i in range(len(x))
PrimeCount(xs) == Len(xs)

\* body of the priming loop
GenPrime ==
    /\ pc = "prime" /\ i < PrimeCount(x)
    /\ h' = forward(x[i + 1], h)
    /\ i' = i + 1
    /\ UNCHANGED <<corpusVars, params, grads, report, pc, err, trainLocals,
                   generated, x, genArgs>>

\* x = x[-1]
GenLast ==
    /\ pc = "prime" /\ i >= PrimeCount(x)
    /\ \/ /\ Len(x) = 0
          /\ pc' = "failed" /\ err' = "IndexError"
          /\ UNCHANGED <<x, i>>
       \/ /\ Len(x) > 0
          /\ x' = <<x[Len(x)]>>
          /\ i' = 0
          /\ pc' = "sample_loop" /\ err' = err
    /\ UNCHANGED <<corpusVars, params, grads, report, trainLocals,
                   generated, h, genArgs>>

\* torch.multinomial(out.div(t).exp(), 1): the ids it can return.  exp is positive
\* for every t # 0, so every id can be drawn.
SampleIds(t) == DOMAIN num_to_let

\* t = 0 divides by zero: the weights are inf/0/nan and multinomial either raises
\* or returns some id, depending on the build
SampleMayRaise(t) == t = 0

\* the sampled id not fed back
NextInput_Stale(sample) == x

\* x = Variable(torch.LongTensor([sample]))
NextInput(sample) == <<sample>>

\* body of for i in range(str_len)
GenStep ==
    /\ pc = "sample_loop" /\ i < str_len
    /\ h' = forward(x[1], h)
    /\ \/ /\ SampleMayRaise(temperature)
          /\ pc' = "failed" /\ err' = "RuntimeError"
          /\ UNCHANGED <<generated, x, i>>
       \/ /\ \E sample \in SampleIds(temperature) :
                /\ generated' = Append(generated, num_to_let[sample])
                /\ x' = NextInput(sample)
          /\ i' = i + 1
          /\ UNCHANGED <<pc, err>>
    /\ UNCHANGED <<corpusVars, params, grads, report, trainLocals, genArgs>>

\* return generated
GenReturn ==
    /\ pc = "sample_loop" /\ i >= str_len
    /\ pc' = "gen_done"
    /\ UNCHANGED <<corpusVars, params, grads, report, err, trainLocals,
                   generated, h, x, i, genArgs>>

----------------------------------------------------------------------------
\* the cell finished or died with an exception: back to the notebook prompt, the
\* function's frame and its locals are gone
CellEnd ==
    /\ pc \in {"train_done", "gen_done", "failed"}
    /\ pc' = "idle"
    /\ err' = "none"
    /\ report' = << >>
    /\ no_epochs' = 0 /\ epoch' = 0 /\ c' = 0 /\ totcost' = <<0, 1>> /\ cost' = 0
    /\ k' = 0 /\ y' = << >>
    /\ generated' = << >> /\ h' = unbound_hidden /\ x' = << >> /\ i' = 0
    /\ prime' = << >> /\ str_len' = 0 /\ temperature' = 1
    /\ chunkLog' = << >>
    /\ UNCHANGED <<corpusVars, params, grads>>

Next ==
    \/ \E ne \in 1..MaxEpochs : CallTrain(ne)
    \/ TrainEpochStart
    \/ TrainReturn
    \/ TrainChunkStart
    \/ TrainForward
    \/ TrainZeroGrad
    \/ TrainBackward
    \/ TrainOptStep
    \/ TrainAccumulate
    \/ TrainEpochEnd
    \/ \E p \in SeqsUpTo(Chars, MaxPrime), n \in 0..MaxStrLen, t \in TempVals :
          CallGenerate(p, n, t)
    \/ GenPrime
    \/ GenLast
    \/ GenStep
    \/ GenReturn
    \/ CellEnd

Spec == Init /\ [][Next]_vars

----------------------------------------------------------------------------
(* Properties *)

RECURSIVE SumSeq(_)
SumSeq(s) == IF s = << >> THEN 0 ELSE s[1] + SumSeq(Tail(s))

IsInfix(s, t) == \E a \in 0..Len(t) : \E b \in a..Len(t) : s = SubSeq(t, a + 1, b)

InTrain == no_epochs > 0
InChunk == pc \in {"forward", "zero_grad", "backward", "opt_step", "accumulate"}
InGenerate == pc \in {"prime", "sample_loop", "gen_done"}

\* the argmax text of the epoch's last chunk: the last chunk_size letters appended
LastChunkText == SubSeq(generated, Len(generated) - chunk_size + 1, Len(generated))

\* C1: when generate returns, the Cell has been stepped (len(prime) - 1) + length
\* times: the priming loop skips the last character of prime.
C1_PrimeSkipsLast ==
    pc = "gen_done" => Len(h) = (Len(prime) - 1) + str_len

\* C2: generate returns len(prime) + length characters, the first len(prime) of
\* them prime itself, and each later one decodes the id sampled at its iteration,
\* which is the input of the next iteration (the last one is the pending input).
C2_GenerateResult ==
    pc = "gen_done" =>
        /\ Len(generated) = Len(prime) + str_len
        /\ SubSeq(generated, 1, Len(prime)) = prime
        /\ Len(h) >= str_len
        /\ \A j \in 1..str_len :
              generated[Len(prime) + j] =
                  num_to_let[IF j < str_len THEN h[Len(h) - str_len + j + 1] ELSE x[1]]

C2_Witness ==
    /\ pc = "gen_done" /\ Len(prime) = 2 /\ str_len = 2
    /\ generated[3] # generated[4]

\* C3: a generate call with temperature <= 0 never samples a character and never
\* returns a string.
C3_NonPositiveTemperatureFails ==
    (InGenerate /\ temperature <= 0) => ~(pc = "gen_done" \/ (pc = "sample_loop" /\ i > 0))

\* C4: a training run whose chunk_size >= len(X) gets no chunk, completes no epoch,
\* and when it fails it fails with random_chunk's error.
C4_TrainFailsThroughChunkError ==
    (InTrain /\ chunk_size >= Len(X)) =>
        /\ ~InChunk
        /\ report = << >>
        /\ pc # "train_done"
        /\ (pc = "failed" => err = "ValueError")

\* C5: a sampled chunk starts at an offset 0 <= k < len(X) - chunk_size, x and y
\* are the chunk_size entries of X and Y from k on, and y[j] encodes the corpus
\* character right after the one x[j] encodes.
C5_ChunkAligned ==
    (InChunk /\ 0 < chunk_size /\ chunk_size < Len(X)) =>
        /\ 0 <= k /\ k < Len(X) - chunk_size
        /\ Len(x) = chunk_size /\ Len(y) = chunk_size
        /\ \A j \in 1..chunk_size :
              /\ x[j] = X[k + j] /\ y[j] = Y[k + j]
              /\ num_to_let[x[j]] = rawtxt[k + j]
              /\ num_to_let[y[j]] = rawtxt[k + j + 1]

C5_Witness ==
    /\ pc = "forward" /\ k > 0 /\ i = chunk_size - 1
    /\ x[1] # y[1]

\* C6: when an epoch reports, it has run floor(len(X) / chunk_size) chunks and the
\* reported cost is the sum of their costs divided by their number; the running
\* total is zero when an epoch's first chunk is about to start.
C6_EpochCost ==
    /\ (pc = "chunk_loop" /\ c = 0) => totcost = <<0, 1>>
    /\ InChunk => Len(chunkLog) = c
    /\ Len(report) = 1 =>
          /\ Len(chunkLog) = Len(X) \div chunk_size
          /\ Len(chunkLog) > 0
          /\ report[1].cost = Frac(SumSeq(chunkLog), Len(chunkLog))

C6_Witness ==
    /\ Len(report) = 1 /\ report[1].epoch = 2
    /\ chunkLog = <<1, 0>> /\ report[1].cost = <<1, 2>>

\* C7: at the first Cell step of every chunk and of every generate call the hidden
\* state is the zero vector, and at every later step it holds the inputs of this
\* chunk or call only.
C7_FreshHidden ==
    /\ (pc = "forward" /\ Len(x) = chunk_size) => h = SubSeq(x, 1, i)
    /\ (pc = "forward" /\ i = 0) => h = << >>
    /\ pc = "prime" => h = SubSeq(x, 1, i)
    /\ (pc = "prime" /\ i = 0) => h = << >>

C7_Witness ==
    /\ pc = "forward" /\ i = 0 /\ c = 1 /\ epoch = 1 /\ h = << >>

\* C8 as stated: the reported snippet is text of the epoch's last chunk.
C8_SnippetFromLastChunk ==
    Len(report) = 1 => IsInfix(report[1].text, LastChunkText)

\* C8 as amended: the reported snippet is the head (the first SnippetLen letters,
\* 750 in the program) of the argmax text of all the epoch's chunks, first chunk
\* first; every letter of it is a letter of the vocabulary.
C8_SnippetIsEpochHead ==
    /\ pc = "chunk_loop" => Len(generated) = c * chunk_size
    /\ Len(report) = 1 =>
          /\ Len(generated) = NumChunks * chunk_size
          /\ Len(report[1].text) = Min(SnippetLen, Len(generated))
          /\ \A j \in 1..Len(report[1].text) :
                /\ report[1].text[j] = generated[j]
                /\ report[1].text[j] \in Range(rawtxt)

C8_Witness ==
    /\ Len(report) = 1 /\ NumChunks > 1 /\ Len(generated) > SnippetLen
    /\ ~IsInfix(report[1].text, LastChunkText)

\* C9: X is the encoded corpus, Y has its length, and Y[i] = X[(i+1) mod len(X)]
\* for every index, the wraparound included, in every state (0-based i).
C9_ShiftInvariant ==
    /\ X = maparray(rawtxt, let_to_num)
    /\ Len(Y) = Len(X)
    /\ \A n \in 0..(Len(X) - 1) : Y[n + 1] = X[((n + 1) % Len(X)) + 1]

C9_Witness ==
    /\ params > 0 /\ pc = "gen_done" /\ str_len > 0
    /\ Len(X) = 3 /\ X[1] # X[3] /\ Y[3] = X[1]

\* C10: a chunk's steps come in the order sampled, chunk_size forward steps,
\* zero_grad, backward, one optimizer step, accumulate; the parameters change at
\* the optimizer step only, so neither the forward unroll nor generate changes them.
C10_ChunkOrder ==
    [][ /\ (params' # params) => (pc = "opt_step" /\ grads = "computed")
        /\ (pc = "opt_step") => (params' = params + 1 /\ pc' = "accumulate")
        /\ (pc' = "forward" /\ pc # "forward") => (pc = "chunk_loop" /\ i' = 0)
        /\ (pc = "forward" /\ pc' = "forward") => (i' = i + 1 /\ i' < chunk_size)
        /\ (pc = "forward" /\ pc' # "forward") => (pc' = "zero_grad" /\ i' = chunk_size)
        /\ (pc = "zero_grad") => pc' = "backward"
        /\ (pc = "backward") => pc' = "opt_step"
        /\ (pc = "accumulate") => (pc' = "chunk_loop" /\ c' = c + 1)
        /\ InGenerate => params' = params
      ]_vars

C10_Witness ==
    /\ pc = "accumulate" /\ chunk_size = 2 /\ params = 2 /\ i = 2

====
